---- MODULE Spec2Model ----
(***************************************************************************)
(* A model of src/eval.py: the tokenizer, the recursive-descent parser     *)
(* that evaluates while it parses, evaluate() and main().                  *)
(*                                                                         *)
(* A character is its Unicode code point, a string the sequence of its     *)
(* code points, so "1+2" is <<49, 43, 50>>, written Text(<<"1", "+",       *)
(* "2">>) below; a token is such a sequence too, and Python's None         *)
(* (returned by peek at the end of the tokens) is the empty sequence,      *)
(* which no token ever is.  Positions are zero-based as in the code:       *)
(* text[i] of the code is At(text, i).                                     *)
(*                                                                         *)
(* A Python number is a record [t, k, neg, m, e].  t is "int" or "float";  *)
(* a finite number (k = "fin") is m * 2^e, negative when neg, where m is   *)
(* a natural number of any size kept as its digits in base 2^15, the       *)
(* least significant first.  An int has e = 0.  A float is an IEEE-754     *)
(* double: m has 53 bits, or fewer with e = -1074, and every operation     *)
(* rounds to the nearest double, ties to even; k = "inf" and k = "nan"     *)
(* are the infinities and the NaN.  An operation that raises gives a       *)
(* record whose t is the exception's class and whose k is its message.     *)
(***************************************************************************)
EXTENDS Integers, Sequences, FiniteSets, TLC

VARIABLES
    pc,         \* where the program is: "main", "check", "idle", "lex", "parse", "returned", "raised", "exit"
    via,        \* who calls evaluate(): "main", or "api" for a caller that imports it
    args,       \* sys.argv[1:], a sequence of strings
    stdin,      \* the lines standard input still holds, each without its newline; none at end of file
    queue,      \* the expressions a caller of evaluate() still has to pass to it
    results,    \* what each finished call of evaluate() gave its caller
    expression, \* main's local variable
    text,       \* Tokenizer.text
    i,          \* the local i of Tokenizer._tokenize
    tokens,     \* Tokenizer.tokens
    idx,        \* Tokenizer.idx
    stack,      \* the call stack of the parser, innermost frame last
    ret,        \* the value the last finished parser method returned
    retval,     \* the value evaluate() returned
    err,        \* the exception raised, NoErr when none
    consumed,   \* the tokens advance() has returned, in order
    stdout,     \* the lines main printed
    status      \* the exit status of main, -1 while it runs

vars == <<pc, via, args, stdin, queue, results, expression, text, i, tokens, idx,
          stack, ret, retval, err, consumed, stdout, status>>

----------------------------------------------------------------------------
(* Characters *)

\* ord(ch) for the characters the inputs below are written with
Ord(ch) ==
    CASE ch = "0" -> 48 [] ch = "1" -> 49 [] ch = "2" -> 50 [] ch = "3" -> 51
      [] ch = "4" -> 52 [] ch = "5" -> 53 [] ch = "6" -> 54 [] ch = "7" -> 55
      [] ch = "8" -> 56 [] ch = "9" -> 57 [] ch = " " -> 32 [] ch = "\t" -> 9
      [] ch = "(" -> 40 [] ch = ")" -> 41 [] ch = "*" -> 42 [] ch = "+" -> 43
      [] ch = "-" -> 45 [] ch = "." -> 46 [] ch = "/" -> 47 [] ch = "x" -> 120

\* the string whose characters are those of s
Text(s) == [k \in 1..Len(s) |-> Ord(s[k])]

\* the string of the one character ch
Chr(ch) == <<Ord(ch)>>

Dot == Ord(".")

\* the characters str.isspace holds of
Whitespace ==
    (9..13) \cup (28..32) \cup {133, 160, 5760} \cup (8192..8202)
        \cup {8232, 8233, 8239, 8287, 12288}

OpChars == {Ord("+"), Ord("-"), Ord("*"), Ord("/"), Ord("("), Ord(")")}

\* the decimal digits of Unicode, ten or a multiple of ten in a row from a zero
DecimalRanges ==
    { <<48, 57>>, <<1632, 1641>>, <<1776, 1785>>, <<1984, 1993>>,
      <<2406, 2415>>, <<2534, 2543>>, <<2662, 2671>>, <<2790, 2799>>,
      <<2918, 2927>>, <<3046, 3055>>, <<3174, 3183>>, <<3302, 3311>>,
      <<3430, 3439>>, <<3558, 3567>>, <<3664, 3673>>, <<3792, 3801>>,
      <<3872, 3881>>, <<4160, 4169>>, <<4240, 4249>>, <<6112, 6121>>,
      <<6160, 6169>>, <<6470, 6479>>, <<6608, 6617>>, <<6784, 6793>>,
      <<6800, 6809>>, <<6992, 7001>>, <<7088, 7097>>, <<7232, 7241>>,
      <<7248, 7257>>, <<42528, 42537>>, <<43216, 43225>>, <<43264, 43273>>,
      <<43472, 43481>>, <<43504, 43513>>, <<43600, 43609>>, <<44016, 44025>>,
      <<65296, 65305>>, <<66720, 66729>>, <<68912, 68921>>, <<69734, 69743>>,
      <<69872, 69881>>, <<69942, 69951>>, <<70096, 70105>>, <<70384, 70393>>,
      <<70736, 70745>>, <<70864, 70873>>, <<71248, 71257>>, <<71360, 71369>>,
      <<71472, 71481>>, <<71904, 71913>>, <<72016, 72025>>, <<72784, 72793>>,
      <<73040, 73049>>, <<73120, 73129>>, <<92768, 92777>>, <<92864, 92873>>,
      <<93008, 93017>>, <<120782, 120831>>, <<123200, 123209>>,
      <<123632, 123641>>, <<125264, 125273>>, <<130032, 130041>> }

\* the other characters str.isdigit holds of: superscripts, subscripts,
\* circled digits and the like, which int() and float() do not take
OtherDigitRanges ==
    { <<178, 179>>, <<185, 185>>, <<4969, 4977>>, <<6618, 6618>>,
      <<8304, 8304>>, <<8308, 8313>>, <<8320, 8329>>, <<9312, 9320>>,
      <<9332, 9340>>, <<9352, 9360>>, <<9450, 9450>>, <<9461, 9469>>,
      <<9471, 9471>>, <<10102, 10110>>, <<10112, 10120>>, <<10122, 10130>>,
      <<68160, 68163>>, <<69216, 69224>>, <<69714, 69722>>,
      <<127232, 127242>> }

InRanges(ch, ranges) == \E r \in ranges : r[1] <= ch /\ ch <= r[2]

\* ch is a digit int() and float() take
IsDecimal(ch) ==
    IF ch < 128 THEN 48 <= ch /\ ch <= 57 ELSE InRanges(ch, DecimalRanges)

\* isspace that knows the blank only
isspaceBlankOnly(ch) == ch = 32

\* ch.isspace()
isspace(ch) == ch \in Whitespace

\* ch.isdigit()
isdigit(ch) == IsDecimal(ch) \/ (ch >= 128 /\ InRanges(ch, OtherDigitRanges))

At(s, k) == s[k + 1]

None == <<>>

\* the value of the decimal digit ch
DigitVal(ch) ==
    IF ch < 128 THEN ch - 48
    ELSE LET r == CHOOSE r \in DecimalRanges : r[1] <= ch /\ ch <= r[2]
         IN  (ch - r[1]) % 10

Front(s) == SubSeq(s, 1, Len(s) - 1)
Last(s) == s[Len(s)]

----------------------------------------------------------------------------
(* Natural numbers of any size, as Python's ints have *)

Limb == 2^15

Abs(x) == IF x < 0 THEN -x ELSE x

Max(a, b) == IF a >= b THEN a ELSE b

SetMax(S) == CHOOSE x \in S : \A y \in S : y <= x

\* a without the zeros at its most significant end
BNorm(a) ==
    IF a = <<>> \/ Last(a) # 0 THEN a
    ELSE LET nz == {k \in 1..Len(a) : a[k] # 0}
         IN  IF nz = {} THEN <<>> ELSE SubSeq(a, 1, SetMax(nz))

RECURSIVE BFromInt(_)
BFromInt(n) == IF n = 0 THEN <<>> ELSE <<n % Limb>> \o BFromInt(n \div Limb)

RECURSIVE BToInt(_)
BToInt(a) == IF a = <<>> THEN 0 ELSE a[1] + Limb * BToInt(Tail(a))

One == <<1>>

\* digit k of a, zero beyond its end
Digit(a, k) == IF k <= Len(a) THEN a[k] ELSE 0

\* 1, 0 or -1 as a is above, equal to or below b
BCmp(a, b) ==
    IF Len(a) > Len(b) THEN 1
    ELSE IF Len(a) < Len(b) THEN -1
    ELSE LET differ == {k \in 1..Len(a) : a[k] # b[k]}
         IN  IF differ = {} THEN 0
             ELSE IF a[SetMax(differ)] > b[SetMax(differ)] THEN 1
             ELSE -1

\* the sum a + b + c carries into digit k: a digit below k makes a carry
\* (or c is one) and every digit between hands it on
Carry(a, b, c, k) ==
    \E j \in 0..(k - 1) :
        /\ IF j = 0 THEN c = 1 ELSE Digit(a, j) + Digit(b, j) >= Limb
        /\ \A l \in (j + 1)..(k - 1) : Digit(a, l) + Digit(b, l) = Limb - 1

\* a + b + c for a carry c of 0 or 1; a and b may end in zeros
BAddC(a, b, c) ==
    LET n == Max(Len(a), Len(b))
    IN  BNorm([k \in 1..(n + 1) |->
                  (Digit(a, k) + Digit(b, k) + (IF Carry(a, b, c, k) THEN 1 ELSE 0)) % Limb])

BAdd(a, b) == BAddC(a, b, 0)

\* the difference a - b borrows from digit k
Borrow(a, b, k) ==
    \E j \in 1..(k - 1) :
        /\ a[j] < Digit(b, j)
        /\ \A l \in (j + 1)..(k - 1) : a[l] = Digit(b, l)

\* a - b, for a >= b
BSub(a, b) ==
    BNorm([k \in 1..Len(a) |->
              (a[k] - Digit(b, k) - (IF Borrow(a, b, k) THEN 1 ELSE 0) + Limb) % Limb])

\* a * k + c for 0 < k < Limb and 0 <= c < Limb: each digit times k is a low
\* and a high digit, and the low and the high digits are added
BMulSmall(a, k, c) ==
    IF a = <<>> THEN (IF c = 0 THEN <<>> ELSE <<c>>)
    ELSE BAdd([j \in 1..Len(a) |-> (a[j] * k) % Limb],
              [j \in 1..(Len(a) + 1) |-> IF j = 1 THEN c ELSE (a[j - 1] * k) \div Limb])

\* a * Limb^h
BShift(a, h) == IF a = <<>> THEN a ELSE [k \in 1..h |-> 0] \o a

\* a * b, from the products of a with the two halves of b
RECURSIVE BMul(_, _)
BMul(a, b) ==
    IF a = <<>> \/ b = <<>> THEN <<>>
    ELSE IF Len(b) = 1 THEN BMulSmall(a, b[1], 0)
    ELSE LET h == Len(b) \div 2
         IN  BAdd(BMul(a, BNorm(SubSeq(b, 1, h))),
                  BShift(BMul(a, SubSeq(b, h + 1, Len(b))), h))

\* a * 2^s
BShl(a, s) == BShift(BMulSmall(a, 2^(s % 15), 0), s \div 15)

\* a \div 2^s
BShr(a, s) ==
    LET d == SubSeq(a, (s \div 15) + 1, Len(a))
        r == s % 15
    IN  BNorm([k \in 1..Len(d) |->
                  (d[k] \div 2^r)
                      + (IF k < Len(d) THEN (d[k + 1] % 2^r) * 2^(15 - r) ELSE 0)])

\* the number of bits of a
BitLen(a) ==
    IF a = <<>> THEN 0
    ELSE 15 * (Len(a) - 1) + (CHOOSE n \in 1..15 : 2^(n - 1) <= Last(a) /\ Last(a) < 2^n)

\* bit j of a, bit 0 the least significant
Bit(a, j) ==
    IF (j \div 15) + 1 > Len(a) THEN 0 ELSE (a[(j \div 15) + 1] \div 2^(j % 15)) % 2

IsOdd(a) == a # <<>> /\ a[1] % 2 = 1

\* a * c for 0 <= c <= Limb
Times(a, c) == IF c = 0 THEN <<>> ELSE BMulSmall(a, c, 0)

\* r \div d, a digit, for r < d * Limb and d with its top digit at least
\* Limb / 2: the two top digits of r by the top digit of d give it or up to
\* two more
QuoDigit(r, d) ==
    LET t == Len(d)
        guess == (Digit(r, t + 1) * Limb + Digit(r, t)) \div d[t]
        est == IF guess < Limb THEN guess ELSE Limb - 1
    IN  CHOOSE c \in Max(0, est - 2)..est :
            BCmp(Times(d, c), r) <= 0 /\ BCmp(Times(d, c + 1), r) > 0

\* the quotient and the remainder by d of the digits of n from digit j up,
\* by long division: those of the digits above j, and then digit j
RECURSIVE BDivDigits(_, _, _)
BDivDigits(n, d, j) ==
    IF Len(n) - j + 1 < Len(d) THEN [q |-> <<>>, r |-> SubSeq(n, j, Len(n))]
    ELSE LET p == BDivDigits(n, d, j + 1)
             r1 == BNorm(<<n[j]>> \o p.r)
             c == QuoDigit(r1, d)
         IN  [q |-> BNorm(<<c>> \o p.q), r |-> BSub(r1, Times(d, c))]

\* n \div d and n % d, for d > 0
BDivMod(n, d) ==
    LET s == 15 * Len(d) - BitLen(d)
        p == BDivDigits(BShl(n, s), BShl(d, s), 1)
    IN  [q |-> p.q, r |-> BShr(p.r, s)]

\* 10^k
RECURSIVE BPow10(_)
BPow10(k) ==
    IF k = 0 THEN One
    ELSE IF k % 2 = 1 THEN BMulSmall(BPow10(k - 1), 10, 0)
    ELSE LET h == BPow10(k \div 2) IN BMul(h, h)

----------------------------------------------------------------------------
(* Numbers *)

Num(t, k, neg, m, e) == [t |-> t, k |-> k, neg |-> neg, m |-> m, e |-> e]

\* the int n
PyInt(n) == Num("int", "fin", n < 0, BFromInt(Abs(n)), 0)

\* the int of magnitude m, negative when neg
BigInt(neg, m) == Num("int", "fin", neg /\ m # <<>>, m, 0)

NoVal == Num("none", "", FALSE, <<>>, 0)

\* what an operation gives when it raises
Exc(cls, msg) == Num(cls, msg, FALSE, <<>>, 0)

IsInt(v) == v.t = "int"
IsFloat(v) == v.t = "float"
IsNumber(v) == IsInt(v) \/ IsFloat(v)

\* value == 0
IsZero(v) == IsNumber(v) /\ v.k = "fin" /\ v.m = <<>>

Zero(neg) == Num("float", "fin", neg, <<>>, 0)
Inf(neg) == Num("float", "inf", neg, <<>>, 0)
NaN == Num("float", "nan", FALSE, <<>>, 0)

\* the double q * 2^u, for q of at most 54 bits and u as Round chooses it;
\* a q of 54 bits is 2^53, and what is too large for a double is infinite
Pack(neg, q, u) ==
    IF q = <<>> THEN Zero(neg)
    ELSE LET over == BitLen(q) = 54
             m == IF over THEN BShr(q, 1) ELSE q
             e == IF over THEN u + 1 ELSE u
         IN  IF e + BitLen(m) > 1024 THEN Inf(neg) ELSE Num("float", "fin", neg, m, e)

\* q rounded up when the remainder is over half, or is half and q is odd
Nearest(q, half) == IF half > 0 \/ (half = 0 /\ IsOdd(q)) THEN BAddC(q, <<>>, 1) ELSE q

\* the double nearest to n * 2^x, ties to even, for n > 0
RoundInt(neg, n, x) ==
    LET u == Max(BitLen(n) + x - 53, -1074)
        s == u - x
    IN  IF s <= 0 THEN Pack(neg, BShl(n, -s), u)
        ELSE LET q == BShr(n, s)
                 rem == BSub(n, BShl(q, s))
             IN  Pack(neg, Nearest(q, BCmp(rem, BShl(One, s - 1))), u)

\* the double nearest to (n / d) * 2^x, ties to even, for n > 0 and d > 0
RoundRatio(neg, n, d, x) ==
    LET bn == BitLen(n)
        bd == BitLen(d)
        ge == IF bn >= bd THEN BCmp(n, BShl(d, bn - bd)) >= 0
                          ELSE BCmp(BShl(n, bd - bn), d) >= 0
        top == bn - bd + x - (IF ge THEN 0 ELSE 1)
        u == Max(top - 52, -1074)
        s == x - u
        nn == IF s >= 0 THEN BShl(n, s) ELSE n
        dd == IF s >= 0 THEN d ELSE BShl(d, -s)
        dm == BDivMod(nn, dd)
    IN  Pack(neg, Nearest(dm.q, BCmp(BAdd(dm.r, dm.r), dd)), u)

Round(neg, n, d, x) == IF d = One THEN RoundInt(neg, n, x) ELSE RoundRatio(neg, n, d, x)

\* the double nearest to n / d for small n >= 0 and d > 0
Double(neg, n, d) == IF n = 0 THEN Zero(neg) ELSE Round(neg, BFromInt(n), BFromInt(d), 0)

\* float(v) for an int v, as the arithmetic of a float with an int makes it
ToFloat(v) ==
    IF IsFloat(v) THEN v
    ELSE IF v.m = <<>> THEN Zero(FALSE)
    ELSE LET f == RoundInt(v.neg, v.m, 0)
         IN  IF f.k = "inf" THEN Exc("OverflowError", "int too large to convert to float")
             ELSE f

\* x + y for two finite numbers on the grid 2^e, the sum a float when asFloat
SignedSum(x, y, asFloat) ==
    LET e == IF x.e <= y.e THEN x.e ELSE y.e
        a == BShl(x.m, x.e - e)
        b == BShl(y.m, y.e - e)
        c == BCmp(a, b)
        neg == IF x.neg = y.neg \/ c > 0 THEN x.neg ELSE y.neg
        m == IF x.neg = y.neg THEN BAdd(a, b)
             ELSE IF c > 0 THEN BSub(a, b)
             ELSE BSub(b, a)
    IN  IF ~asFloat THEN BigInt(neg, m)
        ELSE IF m = <<>> THEN Zero(x.neg /\ y.neg)
        ELSE RoundInt(neg, m, e)

\* x + y for two floats
FAdd(x, y) ==
    IF x.k = "nan" \/ y.k = "nan" THEN NaN
    ELSE IF x.k = "inf" THEN (IF y.k = "inf" /\ y.neg # x.neg THEN NaN ELSE x)
    ELSE IF y.k = "inf" THEN y
    ELSE SignedSum(x, y, TRUE)

\* x * y for two floats
FMul(x, y) ==
    IF x.k = "nan" \/ y.k = "nan" THEN NaN
    ELSE IF x.k = "inf" \/ y.k = "inf"
    THEN (IF IsZero(x) \/ IsZero(y) THEN NaN ELSE Inf(x.neg # y.neg))
    ELSE IF x.m = <<>> \/ y.m = <<>> THEN Zero(x.neg # y.neg)
    ELSE RoundInt(x.neg # y.neg, BMul(x.m, y.m), x.e + y.e)

\* x / y for two floats
FDiv(x, y) ==
    IF IsZero(y) THEN Exc("ZeroDivisionError", "float division by zero")
    ELSE IF x.k = "nan" \/ y.k = "nan" THEN NaN
    ELSE IF x.k = "inf" THEN (IF y.k = "inf" THEN NaN ELSE Inf(x.neg # y.neg))
    ELSE IF y.k = "inf" \/ x.m = <<>> THEN Zero(x.neg # y.neg)
    ELSE Round(x.neg # y.neg, x.m, y.m, x.e - y.e)

\* -value
Neg(v) ==
    IF IsInt(v) THEN BigInt(~v.neg, v.m)
    ELSE IF v.k = "nan" THEN v
    ELSE [v EXCEPT !.neg = ~v.neg]

FSub(x, y) == FAdd(x, Neg(y))

\* the operator op on the floats of l and r; the conversion of an int too
\* large raises
Mixed(op, l, r) ==
    LET a == ToFloat(l)
        b == ToFloat(r)
    IN  IF ~IsFloat(a) THEN a
        ELSE IF ~IsFloat(b) THEN b
        ELSE CASE op = "+" -> FAdd(a, b)
               [] op = "-" -> FSub(a, b)
               [] op = "*" -> FMul(a, b)
               [] op = "/" -> FDiv(a, b)

\* left + right
Add(l, r) ==
    IF IsInt(l) /\ IsInt(r) THEN SignedSum(l, r, FALSE) ELSE Mixed("+", l, r)

\* left - right
Sub(l, r) ==
    IF IsInt(l) /\ IsInt(r) THEN SignedSum(l, Neg(r), FALSE) ELSE Mixed("-", l, r)

\* left * right
Mul(l, r) ==
    IF IsInt(l) /\ IsInt(r) THEN BigInt(l.neg # r.neg, BMul(l.m, r.m))
    ELSE Mixed("*", l, r)

\* left / right for two ints: the quotient rounded once
IntTrueDiv(l, r) ==
    IF r.m = <<>> THEN Exc("ZeroDivisionError", "division by zero")
    ELSE IF l.m = <<>> THEN Zero(l.neg # r.neg)
    ELSE LET f == Round(l.neg # r.neg, l.m, r.m, 0)
         IN  IF f.k = "inf"
             THEN Exc("OverflowError", "integer division result too large for a float")
             ELSE f

\* a division that keeps ints when the quotient is whole
TrueDivKeepsInt(l, r) ==
    IF IsInt(l) /\ IsInt(r) /\ r.m # <<>> /\ BDivMod(l.m, r.m).r = <<>>
    THEN BigInt(l.neg # r.neg, BDivMod(l.m, r.m).q)
    ELSE IF IsInt(l) /\ IsInt(r) THEN IntTrueDiv(l, r)
    ELSE Mixed("/", l, r)

\* left / right: true division, a float whatever the operands
TrueDiv(l, r) ==
    IF IsInt(l) /\ IsInt(r) THEN IntTrueDiv(l, r) ELSE Mixed("/", l, r)

\* the most digits int() reads and str() writes
MaxStrDigits == 4300

\* the natural number the decimal digits of s write: digit by digit for a
\* short s, from the numbers of its two halves for a long one
RECURSIVE DigitsVal(_)
DigitsVal(s) ==
    IF s = <<>> THEN <<>>
    ELSE IF Len(s) <= 8 THEN BMulSmall(DigitsVal(Front(s)), 10, DigitVal(Last(s)))
    ELSE LET h == Len(s) \div 2
             low == SubSeq(s, h + 1, Len(s))
         IN  BAdd(BMul(DigitsVal(SubSeq(s, 1, h)), BPow10(Len(low))), DigitsVal(low))

AllDigits(s) == \A k \in 1..Len(s) : IsDecimal(s[k])

HasDot(tok) == \E k \in 1..Len(tok) : tok[k] = Dot

\* int(tok) succeeds
IntOk(tok) == tok # <<>> /\ AllDigits(tok) /\ Len(tok) <= MaxStrDigits

\* int(tok)
IntOf(tok) == BigInt(FALSE, DigitsVal(tok))

DotAt(tok) == CHOOSE k \in 1..Len(tok) : tok[k] = Dot

IntPart(tok) == SubSeq(tok, 1, DotAt(tok) - 1)
FracPart(tok) == SubSeq(tok, DotAt(tok) + 1, Len(tok))

\* float(tok) succeeds, for a token with a "." in it
FloatOk(tok) ==
    /\ AllDigits(IntPart(tok))
    /\ AllDigits(FracPart(tok))
    /\ Len(tok) > 1

\* float(tok): the double nearest to the decimal, 0.0 below the smallest
\* double and inf above the largest
FloatOf(tok) ==
    LET n == DigitsVal(IntPart(tok) \o FracPart(tok))
    IN  IF n = <<>> THEN Zero(FALSE)
        ELSE Round(FALSE, n, BPow10(Len(FracPart(tok))), 0)

\* value is a float equal to int(value)
IsWhole(v) == v.m = <<>> \/ v.e >= 0 \/ BShl(BShr(v.m, -v.e), -v.e) = v.m

\* int(value) for a finite float
Trunc(v) ==
    BigInt(v.neg, IF v.e >= 0 THEN BShl(v.m, v.e) ELSE BShr(v.m, -v.e))

\* str(value) succeeds for the int value: it has at most MaxStrDigits digits
StrOk(v) ==
    \/ BitLen(v.m) <= (33219 * MaxStrDigits) \div 10000
    \/ BCmp(v.m, BPow10(MaxStrDigits)) < 0

----------------------------------------------------------------------------
(* Exceptions *)

NoErr == [cls |-> "", msg |-> "", tok |-> <<>>, exp |-> <<>>, pos |-> -1, fn |-> ""]

\* raise ParseError(...) in method fn: msg is the fixed part of the message,
\* tok the token or character it names, exp the token expect() wanted,
\* pos the position it names (-1 when it names none)
ParseError(msg, tok, exp, pos, fn) ==
    [cls |-> "ParseError", msg |-> msg, tok |-> tok, exp |-> exp, pos |-> pos, fn |-> fn]

\* the exception an operation of method fn raised instead of giving a number
PyError(v, fn) ==
    [cls |-> v.t, msg |-> v.k, tok |-> <<>>, exp |-> <<>>, pos |-> -1, fn |-> fn]

\* what Python raises in fn when a call would make the stack too deep
RecursionError(fn) ==
    [cls |-> "RecursionError", msg |-> "maximum recursion depth exceeded",
     tok |-> <<>>, exp |-> <<>>, pos |-> -1, fn |-> fn]

----------------------------------------------------------------------------
(* Tokenizer *)

\* the first of the positions where a loop's condition is false
FirstStop(stops) == CHOOSE k \in stops : \A l \in stops : k <= l

\* a scan that takes every "." it meets
ScanNumberAllDots(s, j, has_dot) ==
    FirstStop({k \in j..Len(s) :
                  ~(k < Len(s) /\ (isdigit(At(s, k)) \/ At(s, k) = Dot))})

\* a scan that takes digits only
ScanNumberDigitsOnly(s, j, has_dot) ==
    FirstStop({k \in j..Len(s) : ~(k < Len(s) /\ isdigit(At(s, k)))})

\* the inner while loop of _tokenize: the value of i when it ends, having
\* started at j with has_dot.  At position k has_dot is true when it was at
\* j or a "." stands between j and k, and the loop ends at the first
\* position where its condition is false.
ScanNumber(s, j, has_dot) ==
    LET HasDotAt(k) == has_dot \/ \E l \in j..(k - 1) : At(s, l) = Dot
    IN  FirstStop({k \in j..Len(s) :
                      ~(k < Len(s) /\ (isdigit(At(s, k))
                                         \/ (At(s, k) = Dot /\ ~HasDotAt(k))))})

\* text[start:stop]
Slice(s, start, stop) == SubSeq(s, start + 1, stop)

\* Tokenizer.peek
peek == IF idx < Len(tokens) THEN tokens[idx + 1] ELSE None

\* an advance that leaves the cursor where it is
AdvanceIdxStuck(k) == k

\* the new idx of Tokenizer.advance
AdvanceIdx(k) == k + 1

\* Tokenizer.advance, whose result is peek
advance ==
    /\ idx' = AdvanceIdx(idx)
    /\ consumed' = Append(consumed, peek)

NoAdvance == UNCHANGED <<idx, consumed>>

\* the test of Tokenizer.expect on the token advance returned
ExpectOk(tok, expected) == tok = expected

----------------------------------------------------------------------------
(* evaluate(): the tokenizer is built, which tokenizes, then the parser runs *)

Env == <<via, args, stdin, expression, stdout, status>>

\* evaluate(e) is entered: Tokenizer.__init__ up to the call of _tokenize
Enter(e) ==
    /\ text' = e
    /\ i' = 0
    /\ tokens' = <<>>
    /\ idx' = 0
    /\ stack' = <<>>
    /\ ret' = NoVal
    /\ retval' = NoVal
    /\ err' = NoErr
    /\ consumed' = <<>>
    /\ pc' = "lex"

\* a caller calls evaluate on its next expression
Evaluate ==
    /\ pc = "idle"
    /\ via = "api"
    /\ queue # <<>>
    /\ Enter(Head(queue))
    /\ queue' = Tail(queue)
    /\ UNCHANGED <<Env, results>>

\* a chain that skips what it does not know
CharClassSkipsUnknown(ch) ==
    IF ch \in OpChars THEN "operator"
    ELSE IF isdigit(ch) \/ ch = Dot THEN "number"
    ELSE "space"

\* the branch the if/elif chain of _tokenize takes on ch
CharClass(ch) ==
    IF isspace(ch) THEN "space"
    ELSE IF ch \in OpChars THEN "operator"
    ELSE IF isdigit(ch) \/ ch = Dot THEN "number"
    ELSE "other"

\* one iteration of the while loop of _tokenize
LexStep ==
    /\ pc = "lex"
    /\ i < Len(text)
    /\ LET ch == At(text, i)
       IN  IF CharClass(ch) = "space"
           THEN /\ i' = i + 1
                /\ UNCHANGED <<tokens, err, pc>>
           ELSE IF CharClass(ch) = "operator"
           THEN /\ tokens' = Append(tokens, <<ch>>)
                /\ i' = i + 1
                /\ UNCHANGED <<err, pc>>
           ELSE IF CharClass(ch) = "number"
           THEN LET stop == ScanNumber(text, i + 1, ch = Dot)
                IN  /\ tokens' = Append(tokens, Slice(text, i, stop))
                    /\ i' = stop
                    /\ UNCHANGED <<err, pc>>
           ELSE /\ err' = ParseError("Unexpected character", <<ch>>, <<>>, i, "_tokenize")
                /\ pc' = "raised"
                /\ UNCHANGED <<tokens, i>>
    /\ UNCHANGED <<Env, queue, results, text, idx, stack, ret, retval, consumed>>

Frame(fn, at) == [fn |-> fn, pc |-> at, left |-> NoVal, op |-> None]

\* _tokenize returns, __init__ sets idx, evaluate builds the Parser and calls parse
LexDone ==
    /\ pc = "lex"
    /\ i >= Len(text)
    /\ idx' = 0
    /\ stack' = <<Frame("parse", "start")>>
    /\ pc' = "parse"
    /\ UNCHANGED <<Env, queue, results, text, i, tokens, ret, retval, err, consumed>>

----------------------------------------------------------------------------
(* Parser *)

\* sys.getrecursionlimit(): the most frames the Python stack may hold
RecursionLimit == 1000

\* the frames under evaluate(): the module alone, or the module and main
CallerFrames == IF via = "main" THEN 2 ELSE 1

\* the frames on the Python stack while a method of the parser runs: the
\* callers, evaluate, and the parser's own
Frames == CallerFrames + 1 + Len(stack)

\* n more calls, each inside the one before, fit on the stack
Fits(n) == Frames + n <= RecursionLimit

Top == stack[Len(stack)]

In(fn, at) == pc = "parse" /\ stack # <<>> /\ Top.fn = fn /\ Top.pc = at

\* the name of the method of frame f
Method(f) == IF f.fn = "parse" THEN "parse"
             ELSE IF f.fn = "expr" THEN "_expr"
             ELSE IF f.fn = "term" THEN "_term"
             ELSE IF f.fn = "factor" THEN "_factor"
             ELSE "_atom"

\* the running method returns v to its caller
Return(v) ==
    /\ stack' = Front(stack)
    /\ ret' = v
    /\ UNCHANGED <<retval, err, pc>>

\* the running method raises e, which nothing in evaluate catches
Raise(e) ==
    /\ err' = e
    /\ pc' = "raised"
    /\ UNCHANGED <<stack, ret, retval>>

\* the running method calls another one and will go on at its own frame me;
\* the call raises when the stack is full
Call(me, callee) ==
    IF Fits(1)
    THEN /\ stack' = Append([stack EXCEPT ![Len(stack)] = me], Frame(callee, "start"))
         /\ UNCHANGED <<ret, retval, err, pc>>
    ELSE Raise(RecursionError(Method(Top)))

\* self.tok.advance() and then A; advance calls peek before it moves the
\* cursor, so the cursor stays when that call does not fit
AdvanceThen(A) ==
    IF Fits(2)
    THEN /\ advance
         /\ A
    ELSE /\ Raise(RecursionError(IF Fits(1) THEN "advance" ELSE Method(Top)))
         /\ NoAdvance

Rest == <<Env, queue, results, text, i, tokens>>

\* parse: result = self._expr()
ParseStart ==
    /\ In("parse", "start")
    /\ Call([Top EXCEPT !.pc = "check"], "expr")
    /\ NoAdvance
    /\ UNCHANGED Rest

\* a parse that never looks for a trailing token
TrailingNever == FALSE

\* parse: if self.tok.peek() is not None
Trailing == peek # None

\* parse: the test for a trailing token, and the return
ParseCheck ==
    /\ In("parse", "check")
    /\ IF Trailing
       THEN Raise(ParseError("Unexpected token", peek, <<>>, -1, "parse"))
       ELSE /\ retval' = ret
            /\ pc' = "returned"
            /\ stack' = <<>>
            /\ UNCHANGED <<ret, err>>
    /\ NoAdvance
    /\ UNCHANGED Rest

\* what a loop of fn does with left in hand, left being what its operation
\* gave: the operation may have raised; else the test of the while loop,
\* then either the advance and the call of the operand, or the return
While(fn, ops, operand, left) ==
    IF ~IsNumber(left)
    THEN /\ Raise(PyError(left, fn))
         /\ NoAdvance
    ELSE IF peek \in ops
    THEN AdvanceThen(Call([Top EXCEPT !.pc = "apply", !.left = left, !.op = peek], operand))
    ELSE /\ NoAdvance
         /\ Return(left)

\* _expr: the while loop with left in hand
ExprWhile(left) == While("_expr", {Chr("+"), Chr("-")}, "term", left)

\* _expr: left = self._term(), the call
ExprStart ==
    /\ In("expr", "start")
    /\ Call([Top EXCEPT !.pc = "left"], "term")
    /\ NoAdvance
    /\ UNCHANGED Rest

\* _expr: left = self._term(), the assignment, and on into the loop
ExprLeft ==
    /\ In("expr", "left")
    /\ ExprWhile(ret)
    /\ UNCHANGED Rest

\* a loop body that subtracts the wrong way round
ExprOpSwapped(op, left, right) ==
    IF op = Chr("+") THEN Add(left, right) ELSE Sub(right, left)

\* the body of the loop of _expr once right is known
ExprOp(op, left, right) ==
    IF op = Chr("+") THEN Add(left, right) ELSE Sub(left, right)

\* _expr: right = self._term(), the assignment, the operation, and the loop again
ExprApply ==
    /\ In("expr", "apply")
    /\ ExprWhile(ExprOp(Top.op, Top.left, ret))
    /\ UNCHANGED Rest

\* _term: the while loop with left in hand
TermWhile(left) == While("_term", {Chr("*"), Chr("/")}, "factor", left)

\* _term: left = self._factor(), the call
TermStart ==
    /\ In("term", "start")
    /\ Call([Top EXCEPT !.pc = "left"], "factor")
    /\ NoAdvance
    /\ UNCHANGED Rest

\* _term: left = self._factor(), the assignment, and on into the loop
TermLeft ==
    /\ In("term", "left")
    /\ TermWhile(ret)
    /\ UNCHANGED Rest

\* a test that knows the int zero only
DivisorIsIntZero(right) == IsInt(right) /\ right.m = <<>>

\* _term: if right == 0
DivisorIsZero(right) == IsZero(right)

\* _term: right = self._factor(), the assignment, the operation (for "/" the
\* test of the divisor comes first), and the loop again
TermApply ==
    /\ In("term", "apply")
    /\ LET right == ret
       IN  IF Top.op = Chr("*")
           THEN TermWhile(Mul(Top.left, right))
           ELSE IF DivisorIsZero(right)
           THEN /\ Raise(ParseError("Division by zero", <<>>, <<>>, -1, "_term"))
                /\ NoAdvance
           ELSE TermWhile(TrueDiv(Top.left, right))
    /\ UNCHANGED Rest

\* _factor: a sign is consumed and _factor called again, or _atom is called
FactorStart ==
    /\ In("factor", "start")
    /\ IF ~Fits(1)
       THEN /\ Raise(RecursionError("_factor"))
            /\ NoAdvance
       ELSE IF peek = Chr("+")
       THEN AdvanceThen(Call([Top EXCEPT !.pc = "plus"], "factor"))
       ELSE IF peek = Chr("-")
       THEN AdvanceThen(Call([Top EXCEPT !.pc = "minus"], "factor"))
       ELSE /\ NoAdvance
            /\ Call([Top EXCEPT !.pc = "atom"], "atom")
    /\ UNCHANGED Rest

\* what _factor returns, its callee having returned v
FactorResult(at, v) == IF at = "minus" THEN Neg(v) ELSE v

\* _factor: one of its three return statements
FactorReturn ==
    /\ pc = "parse" /\ stack # <<>>
    /\ Top.fn = "factor"
    /\ Top.pc \in {"plus", "minus", "atom"}
    /\ Return(FactorResult(Top.pc, ret))
    /\ NoAdvance
    /\ UNCHANGED Rest

\* the conversion of a token by _atom succeeds
NumberOk(tok) == IF HasDot(tok) THEN FloatOk(tok) ELSE IntOk(tok)

\* float(tok) if "." in tok, int(tok) otherwise
NumberOf(tok) == IF HasDot(tok) THEN FloatOf(tok) ELSE IntOf(tok)

\* _atom up to its call of _expr, or all of it for a number
AtomStart ==
    /\ In("atom", "start")
    /\ LET tok == peek
       IN  IF ~Fits(1)
           THEN /\ Raise(RecursionError("_atom"))
                /\ NoAdvance
           ELSE IF tok = None
           THEN /\ Raise(ParseError("Unexpected end of expression", <<>>, <<>>, -1, "_atom"))
                /\ NoAdvance
           ELSE IF tok = Chr("(")
           THEN AdvanceThen(Call([Top EXCEPT !.pc = "close"], "expr"))
           ELSE AdvanceThen(IF NumberOk(tok)
                            THEN Return(NumberOf(tok))
                            ELSE Raise(ParseError("Invalid number", tok, <<>>, -1, "_atom")))
    /\ UNCHANGED Rest

\* _atom: result = self._expr(), the assignment, expect(")") and the return;
\* expect calls advance, which calls peek
AtomClose ==
    /\ In("atom", "close")
    /\ IF Fits(3)
       THEN /\ advance
            /\ IF ExpectOk(peek, Chr(")"))
               THEN Return(ret)
               ELSE Raise(ParseError("Expected", peek, Chr(")"), -1, "expect"))
       ELSE /\ Raise(RecursionError(IF Fits(2) THEN "advance" ELSE "expect"))
            /\ NoAdvance
    /\ UNCHANGED Rest

\* what a call of evaluate gave: the tokens it made, and its value or exception
Outcome ==
    [tokens |-> tokens, ok |-> pc = "returned", value |-> retval, err |-> err]

\* evaluate returns to, or raises into, the caller that imported it
ApiReturn ==
    /\ pc \in {"returned", "raised"}
    /\ via = "api"
    /\ results' = Append(results, Outcome)
    /\ pc' = "idle"
    /\ UNCHANGED <<Env, queue, text, i, tokens, idx, stack, ret, retval, err, consumed>>

----------------------------------------------------------------------------
(* main *)

RECURSIVE Join(_)
\* " ".join(a)
Join(a) ==
    IF a = <<>> THEN <<>>
    ELSE IF Len(a) = 1 THEN a[1]
    ELSE a[1] \o Chr(" ") \o Join(Tail(a))

RECURSIVE LStrip(_)
LStrip(s) == IF s # <<>> /\ isspace(s[1]) THEN LStrip(Tail(s)) ELSE s

RECURSIVE RStrip(_)
RStrip(s) == IF s # <<>> /\ isspace(Last(s)) THEN RStrip(Front(s)) ELSE s

\* s.strip()
Strip(s) == RStrip(LStrip(s))

\* input(): the first line of standard input, or the exception input raises
\* when standard input is at end of file
input(lines) ==
    IF lines = <<>> THEN Exc("EOFError", "EOF when reading a line") ELSE lines[1]

\* main reads standard input, which is at end of file
ReadFails(a, lines) == Len(a) = 0 /\ lines = <<>>

\* the expression main resolves
Resolve(a, lines) == IF Len(a) > 0 THEN Join(a) ELSE Strip(input(lines))

\* what standard input holds after main has resolved its expression:
\* input() takes the first line off it, the arguments leave it alone
Unread(a, lines) == IF Len(a) > 0 THEN lines ELSE Tail(lines)

\* main: the if that picks the arguments or reads a line, which input()
\* takes off standard input; the EOFError of input() is not caught:
\* nothing is printed and the status is 1
MainRead ==
    /\ pc = "main"
    /\ IF ReadFails(args, stdin)
       THEN /\ err' = PyError(input(stdin), "main")
            /\ status' = 1
            /\ pc' = "exit"
            /\ expression' = expression
            /\ stdin' = stdin
       ELSE /\ expression' = Resolve(args, stdin)
            /\ stdin' = Unread(args, stdin)
            /\ pc' = "check"
            /\ err' = err
            /\ status' = status
    /\ UNCHANGED <<via, args, queue, results, text, i, tokens, idx, stack,
                   ret, retval, consumed, stdout>>

\* main: if not expression
IsEmpty(e) == e = <<>>

\* main: the empty expression is reported and the process exits with status 1
MainEmpty ==
    /\ pc = "check"
    /\ IsEmpty(expression)
    /\ stdout' = Append(stdout, [kind |-> "error", msg |-> "empty expression", value |-> NoVal])
    /\ status' = 1
    /\ pc' = "exit"
    /\ UNCHANGED <<via, args, stdin, queue, results, expression, text, i, tokens,
                   idx, stack, ret, retval, err, consumed>>

\* main: result = evaluate(expression), the call
MainEvaluate ==
    /\ pc = "check"
    /\ ~IsEmpty(expression)
    /\ Enter(expression)
    /\ UNCHANGED <<Env, queue, results>>

\* str(value) for an int: the int, or the exception str raises
Str(v) ==
    IF StrOk(v) THEN v
    ELSE Exc("ValueError",
             "Exceeds the limit (4300 digits) for integer string conversion; use sys.set_int_max_str_digits() to increase the limit")

\* format_result: the number whose text it returns, a whole float shown as
\* the int it equals, or the exception int() or str() raises
format_result(value) ==
    IF IsInt(value) THEN Str(value)
    ELSE IF value.k = "inf" THEN Exc("OverflowError", "cannot convert float infinity to integer")
    ELSE IF value.k = "nan" THEN Exc("ValueError", "cannot convert float NaN to integer")
    ELSE IF IsWhole(value) THEN Str(Trunc(value))
    ELSE value

\* main: print(format_result(result)) and the normal end; an exception of
\* format_result is not caught: nothing is printed and the status is 1
MainPrint ==
    /\ pc = "returned"
    /\ via = "main"
    /\ LET shown == format_result(retval)
       IN  IF IsNumber(shown)
           THEN /\ stdout' = Append(stdout, [kind |-> "result", msg |-> "", value |-> shown])
                /\ status' = 0
                /\ err' = err
           ELSE /\ stdout' = stdout
                /\ status' = 1
                /\ err' = PyError(shown, "format_result")
    /\ pc' = "exit"
    /\ UNCHANGED <<via, args, stdin, queue, results, expression, text, i, tokens,
                   idx, stack, ret, retval, consumed>>

\* main: except ParseError, which prints the message; any other exception
\* is not caught and prints nothing on standard output; the status is 1
MainExcept ==
    /\ pc = "raised"
    /\ via = "main"
    /\ stdout' = IF err.cls = "ParseError"
                 THEN Append(stdout, [kind |-> "error", msg |-> err.msg, value |-> NoVal])
                 ELSE stdout
    /\ status' = 1
    /\ pc' = "exit"
    /\ UNCHANGED <<via, args, stdin, queue, results, expression, text, i, tokens,
                   idx, stack, ret, retval, err, consumed>>

----------------------------------------------------------------------------
(* The steps of evaluate, and the two ways it is called *)

EvalStep ==
    \/ LexStep
    \/ LexDone
    \/ ParseStart
    \/ ParseCheck
    \/ ExprStart
    \/ ExprLeft
    \/ ExprApply
    \/ TermStart
    \/ TermLeft
    \/ TermApply
    \/ FactorStart
    \/ FactorReturn
    \/ AtomStart
    \/ AtomClose

\* a caller that imports evaluate and calls it on each expression of queue
NextApi == Evaluate \/ EvalStep \/ ApiReturn

\* the program run from the command line, or evaluate called by an importer
Next ==
    \/ MainRead
    \/ MainEmpty
    \/ MainEvaluate
    \/ MainPrint
    \/ MainExcept
    \/ Evaluate
    \/ EvalStep
    \/ ApiReturn

\* the strings over alphabet of length at most n
Strings(alphabet, n) == UNION {[1..k -> alphabet] : k \in 0..n}

\* the state before a caller passes the expressions of q to evaluate, one by one
InitApi(q) ==
    /\ pc = "idle"
    /\ via = "api"
    /\ args = <<>>
    /\ stdin = <<>>
    /\ queue = q
    /\ results = <<>>
    /\ expression = <<>>
    /\ text = <<>>
    /\ i = 0
    /\ tokens = <<>>
    /\ idx = 0
    /\ stack = <<>>
    /\ ret = NoVal
    /\ retval = NoVal
    /\ err = NoErr
    /\ consumed = <<>>
    /\ stdout = <<>>
    /\ status = -1

\* the state when main starts with arguments a and the lines of standard input
InitMain(a, lines) ==
    /\ pc = "main"
    /\ via = "main"
    /\ args = a
    /\ stdin = lines
    /\ queue = <<>>
    /\ results = <<>>
    /\ expression = <<>>
    /\ text = <<>>
    /\ i = 0
    /\ tokens = <<>>
    /\ idx = 0
    /\ stack = <<>>
    /\ ret = NoVal
    /\ retval = NoVal
    /\ err = NoErr
    /\ consumed = <<>>
    /\ stdout = <<>>
    /\ status = -1

----------------------------------------------------------------------------
(* Inputs *)

\* the expressions the documentation of the program works through, and some
\* that show the arithmetic of doubles and the characters outside ASCII: 10
\* is the line feed, 160 the no-break space, 1635 the Arabic-Indic digit
\* three, 65298 the fullwidth digit two, 178 the superscript two
Examples ==
    { Text(<<"2", " ", "+", " ", "3", " ", "*", " ", "4">>),
      Text(<<"(", "2", " ", "+", " ", "3", ")", " ", "*", " ", "4">>),
      Text(<<"-", "5", " ", "+", " ", "2">>),
      Text(<<"1", "0", " ", "/", " ", "4">>),
      Text(<<"1", "0", " ", "/", " ", "2">>),
      Text(<<"1", " ", "/", " ", "0">>),
      Text(<<"2", " ", "+">>),
      Text(<<"(", "1", " ", "+", " ", "2">>),
      Text(<<"1", " ", "2">>),
      Text(<<"1", ".", "2", ".", "3">>),
      Text(<<"1", "/", "(", "2", "-", "2", ")">>),
      Text(<<"2", "*", "(", "1", "/", "2", ")">>),
      Text(<<"2", "-", "(", "3", "-", "4", ")", "*", "2">>),
      Text(<<"1", "/", "(", ".", "1", "+", ".", "2", "-", ".", "3", ")">>),
      Text(<<"1", "/", "(", ".", "5", "-", ".", "5", ")">>),
      Text(<<"7", "/", "0", ".", "3">>),
      Text(<<"1", "/", "-", "0", ".", "0">>),
      <<Ord("1"), 10, Ord("+"), 160, Ord("2")>>,
      <<1635, Ord("*"), 65298>>,
      <<Ord("2"), 178>> }

MaxLen == 4
MaxIntLen == 6
MaxDivLen == 5
MaxWsLen == 3
MaxArgLen == 2
MaxLineLen == 3

AllChars ==
    {Ord(" "), Ord("+"), Ord("-"), Ord("*"), Ord("/"), Ord("("), Ord(")"),
     Ord("0"), Ord("2"), Dot, Ord("x"), 1635, 178}
IntChars == {Ord("2"), Ord("+"), Ord("-"), Ord("*"), Ord("("), Ord(")")}
DivChars == {Ord("2"), Ord("0"), Dot, Ord("/"), Ord("*"), Ord("-"), Ord("("), Ord(")")}
WsChars == {Ord("2"), Ord("+"), Ord("*"), Ord("("), Dot, Ord("x")}
MainChars == {Ord(" "), Ord("2"), Ord("+")}
LineChars == MainChars \cup {Ord("\t"), 160}

\* s with the character ch put in before position p (zero-based)
Insert(s, p, ch) == SubSeq(s, 1, p) \o <<ch>> \o SubSeq(s, p + 1, Len(s))

\* the places of s where the character before or after is an operator or a
\* parenthesis, and its two ends
BesideOperator(s) ==
    {p \in 0..Len(s) :
        \/ p = 0
        \/ p = Len(s)
        \/ s[p] \in OpChars
        \/ s[p + 1] \in OpChars}

ArgStrings == Strings(MainChars, MaxArgLen)

ArgLists == {<<a>> : a \in ArgStrings} \cup {<<a, b>> : a \in ArgStrings, b \in ArgStrings}

\* what follows the first line on standard input: nothing, or one more line
MoreLines == {<<>>, <<Text(<<"2">>)>>}

\* one call of evaluate on a short string or on an example, or one run of
\* main: with arguments, with lines on standard input, or with standard
\* input at end of file
Init ==
    \/ \E s \in Strings(AllChars, MaxLen) \cup Examples : InitApi(<<s>>)
    \/ \E a \in ArgLists : \E lines \in MoreLines : InitMain(a, lines)
    \/ \E l \in Strings(LineChars, MaxLineLen) : \E more \in MoreLines :
          InitMain(<<>>, <<l>> \o more)
    \/ InitMain(<<>>, <<>>)

Spec == Init /\ [][Next]_vars

\* one call of evaluate on an expression of integers, + - * and parentheses
InitInt == \E s \in Strings(IntChars, MaxIntLen) \cup Examples : InitApi(<<s>>)

SpecInt == InitInt /\ [][NextApi]_vars

\* one call of evaluate on an expression with divisions, zeros and floats
InitDiv == \E s \in Strings(DivChars, MaxDivLen) \cup Examples : InitApi(<<s>>)

SpecDiv == InitDiv /\ [][NextApi]_vars

\* two calls of evaluate: on a string, then on the string with one more
\* whitespace character at one of its ends or beside an operator
InitWs ==
    \/ \E s \in Strings(WsChars, MaxWsLen) :
          \E p \in BesideOperator(s) : \E w \in Whitespace :
              InitApi(<<s, Insert(s, p, w)>>)
    \/ InitApi(<<Text(<<"1", "+", "2">>), Text(<<" ", "1", " ", "+", " ", "2", " ">>)>>)

SpecWs == InitWs /\ [][NextApi]_vars

----------------------------------------------------------------------------
(* C1: integer expressions *)

IntOps == {Chr("+"), Chr("-"), Chr("*"), Chr("("), Chr(")")}

\* every token is an integer literal or one of + - * ( )
IntOnly(ts) == \A k \in 1..Len(ts) : ts[k] \in IntOps \/ AllDigits(ts[k])

\* the number of parentheses open before position k of ts
Depth(ts, k) ==
    Cardinality({j \in 1..(k - 1) : ts[j] = Chr("(")})
        - Cardinality({j \in 1..(k - 1) : ts[j] = Chr(")")})

\* the + or - at position k of ts has a left operand
Binary(ts, k) == k > 1 /\ (ts[k - 1] = Chr(")") \/ AllDigits(ts[k - 1]))

\* a decimal numeral read from its most significant digit
RECURSIVE Decimal(_, _)
Decimal(digits, acc) ==
    IF digits = <<>> THEN acc
    ELSE Decimal(Tail(digits), 10 * acc + DigitVal(Head(digits)))

\* The value of a well-formed integer expression by the rules of arithmetic,
\* found without the parser's method: an expression is split at its last
\* binary + or - outside all parentheses (so those associate to the left and
\* bind loosest), otherwise at its last * outside all parentheses, otherwise
\* it is a signed factor, a parenthesised expression or a numeral.
RECURSIVE Arith(_)
Arith(ts) ==
    LET n == Len(ts)
        sums == {k \in 1..n : /\ ts[k] \in {Chr("+"), Chr("-")}
                              /\ Depth(ts, k) = 0
                              /\ Binary(ts, k)}
        prods == {k \in 1..n : ts[k] = Chr("*") /\ Depth(ts, k) = 0}
    IN  IF sums # {}
        THEN LET k == SetMax(sums)
             IN  IF ts[k] = Chr("+")
                 THEN Arith(SubSeq(ts, 1, k - 1)) + Arith(SubSeq(ts, k + 1, n))
                 ELSE Arith(SubSeq(ts, 1, k - 1)) - Arith(SubSeq(ts, k + 1, n))
        ELSE IF prods # {}
        THEN LET k == SetMax(prods)
             IN  Arith(SubSeq(ts, 1, k - 1)) * Arith(SubSeq(ts, k + 1, n))
        ELSE IF ts[1] = Chr("-") THEN 0 - Arith(Tail(ts))
        ELSE IF ts[1] = Chr("+") THEN Arith(Tail(ts))
        ELSE IF ts[1] = Chr("(") THEN Arith(SubSeq(ts, 2, n - 1))
        ELSE Decimal(ts[1], 0)

\* the integer an int value stands for
IntValue(v) == IF v.neg THEN 0 - BToInt(v.m) ELSE BToInt(v.m)

\* C1: whenever evaluate returns on an input made only of integer literals,
\* + - * ( ) and whitespace, the value is an int and equals the value
\* arithmetic gives the expression: * before binary + and -, a sign before *,
\* equal precedence from left to right.
C1_IntegerArithmetic ==
    (pc = "returned" /\ IntOnly(tokens)) =>
        (IsInt(retval) /\ retval.e = 0 /\ IntValue(retval) = Arith(tokens))

\* "2-(3-4)*2" has returned 4
C1_Witness ==
    /\ pc = "returned"
    /\ text = Text(<<"2", "-", "(", "3", "-", "4", ")", "*", "2">>)
    /\ retval = PyInt(4)

----------------------------------------------------------------------------
(* C2: division gives a float *)

Range(f) == {f[k] : k \in DOMAIN f}

\* the value an apply step of _expr or _term leaves in left: in the frame
\* when the loop goes on, returned when it ends
Applied(before, after, returned) ==
    IF Len(after) > Len(before) THEN after[Len(before)].left ELSE returned

\* C2, the result: when evaluate returns and the tokens hold a "/", the
\* value is a float.
C2_SlashGivesFloat ==
    (pc = "returned" /\ Chr("/") \in Range(tokens)) => IsFloat(retval)

\* C2, the other operators: a +, - or * applied to two ints leaves an int.
C2_IntOpGivesInt ==
    LET intOp == \/ In("expr", "apply")
                 \/ (In("term", "apply") /\ Top.op = Chr("*"))
    IN  (intOp /\ IsInt(Top.left) /\ IsInt(ret) /\ pc' = "parse") =>
            IsInt(Applied(stack, stack', ret'))

\* C2: an accepted input with a "/" token evaluates to a float wherever the
\* "/" stands, and + - * on two ints give an int.
C2_DivisionIsFloat == [](C2_SlashGivesFloat) /\ [][C2_IntOpGivesInt]_vars

\* "2*(1/2)" has returned the float 1.0
C2_Witness ==
    /\ pc = "returned"
    /\ text = Text(<<"2", "*", "(", "1", "/", "2", ")">>)
    /\ retval = Double(FALSE, 1, 1)

----------------------------------------------------------------------------
(* C3: division by zero *)

\* C3, one step: when _term has the right operand of a "/" and it is zero,
\* the step raises ParseError "Division by zero" from _term, whatever left
\* is; left is not replaced, nothing is returned.
C3_ZeroDivisorStep ==
    (In("term", "apply") /\ Top.op = Chr("/") /\ ret.k = "fin" /\ ret.m = <<>>) =>
        /\ pc' = "raised"
        /\ err' = ParseError("Division by zero", <<>>, <<>>, -1, "_term")
        /\ stack' = stack
        /\ retval' = NoVal

\* C3: a zero right operand of "/", int or float, literal or computed, makes
\* evaluation fail with ParseError "Division by zero" before any division.
C3_DivisionByZero == [][C3_ZeroDivisorStep]_vars

\* a float divided by a computed float zero has raised "Division by zero"
C3_Witness ==
    /\ pc = "raised"
    /\ err.msg = "Division by zero"
    /\ text = Text(<<"1", "/", "(", ".", "5", "-", ".", "5", ")">>)
    /\ IsFloat(ret)
    /\ ret.m = <<>>

----------------------------------------------------------------------------
(* C4: trailing tokens *)

\* C4, the check: when parse has its result and a token is left, the step
\* raises ParseError "Unexpected token" naming that token and returns nothing.
C4_TrailingStep ==
    (In("parse", "check") /\ idx < Len(tokens)) =>
        /\ pc' = "raised"
        /\ err' = ParseError("Unexpected token", tokens[idx + 1], <<>>, -1, "parse")
        /\ retval' = NoVal

\* C4: parse returns a value only with every token consumed; a token left
\* after the top-level expression is a ParseError naming it.
C4_NoTrailingToken ==
    /\ [](pc = "returned" => (idx >= Len(tokens) /\ retval # NoVal))
    /\ [][C4_TrailingStep]_vars

\* "1 2" has failed on the token 2
C4_Witness ==
    /\ pc = "raised"
    /\ tokens = <<Chr("1"), Chr("2")>>
    /\ err.msg = "Unexpected token"
    /\ err.tok = Chr("2")

----------------------------------------------------------------------------
(* C5: characters the tokenizer does not know *)

\* ch is whitespace, one of + - * / ( ), a digit or "."
Known(ch) == isspace(ch) \/ ch \in OpChars \/ isdigit(ch) \/ ch = Dot

\* C5 as claimed: a failure of the tokenizer is an error of kind LexError,
\* which is not ParseError.
C5_LexErrorKind ==
    (pc = "raised" /\ err.fn = "_tokenize") =>
        (err.cls = "LexError" /\ err.cls # "ParseError")

\* C5 as amended, one step: the tokenizer at an unknown character raises
\* ParseError "Unexpected character" with the character and its zero-based
\* position; no token has been parsed and nothing computed.
C5_UnknownCharStep ==
    (pc = "lex" /\ i < Len(text) /\ ~Known(At(text, i))) =>
        /\ pc' = "raised"
        /\ err' = ParseError("Unexpected character", <<At(text, i)>>, <<>>, i, "_tokenize")
        /\ text[err'.pos + 1] = err'.tok[1]
        /\ idx' = 0 /\ stack' = <<>> /\ consumed' = <<>>
        /\ ret' = NoVal /\ retval' = NoVal

\* C5 as amended: the failure is a ParseError (the program has no other kind
\* of error) raised during tokenizing, and only an unknown character raises it.
C5_UnknownCharacter ==
    /\ [][C5_UnknownCharStep]_vars
    /\ []((pc = "raised" /\ err.fn = "_tokenize") =>
            (/\ err.cls = "ParseError"
             /\ err.pos = i
             /\ ~Known(At(text, i))
             /\ stack = <<>>))

\* an unknown character at position 2 has been reported
C5_Witness ==
    /\ pc = "raised"
    /\ err.msg = "Unexpected character"
    /\ err.tok = Chr("x")
    /\ err.pos = 2
    /\ tokens # <<>>

----------------------------------------------------------------------------
(* C6: the empty expression *)

\* C6 as claimed: on both input paths, once main has resolved an expression
\* (from the arguments, or from a line input() did read) that is empty after
\* trimming, it prints "empty expression", exits with a status that is not
\* zero, and evaluate has not been entered.
C6_EmptyAfterTrim ==
    (/\ via = "main"
     /\ pc \notin {"main", "check"}
     /\ err.cls # "EOFError"
     /\ Strip(expression) = <<>>) =>
        /\ pc = "exit"
        /\ stdout = <<[kind |-> "error", msg |-> "empty expression", value |-> NoVal]>>
        /\ status > 0
        /\ err = NoErr

----------------------------------------------------------------------------
(* C7: whitespace *)

\* C7: a string, and the string with a whitespace character added at an end
\* or beside an operator or parenthesis, give the same tokens and the same
\* outcome of evaluate: the same value, or the same kind of failure.
C7_WhitespaceInsensitive ==
    Len(results) = 2 =>
        /\ results[1].tokens = results[2].tokens
        /\ results[1].ok = results[2].ok
        /\ results[1].value = results[2].value
        /\ results[1].err.cls = results[2].err.cls
        /\ results[1].err.msg = results[2].err.msg
        /\ results[1].err.tok = results[2].err.tok

\* evaluate("1+2") and evaluate(" 1 + 2 ") have both returned 3
C7_Witness ==
    /\ Len(results) = 2
    /\ text = Text(<<" ", "1", " ", "+", " ", "2", " ">>)
    /\ results[1].ok
    /\ results[2].value = PyInt(3)

----------------------------------------------------------------------------
(* C8: "1.2.3" *)

OneTwoThree == Text(<<"1", ".", "2", ".", "3">>)

\* C8 as claimed: "1.2.3" gives the tokens "1.2" and ".3", and evaluate
\* fails in _atom, nowhere else.
C8_FailsInAtom ==
    (text = OneTwoThree /\ pc \in {"parse", "returned", "raised"}) =>
        /\ tokens = <<Text(<<"1", ".", "2">>), Text(<<".", "3">>)>>
        /\ pc # "returned"
        /\ pc = "raised" => err.fn = "_atom"

\* C8 as amended: "1.2.3" gives the tokens "1.2" and ".3"; _atom converts
\* "1.2", and evaluate fails in parse, whose check finds ".3" left over; ".3"
\* is never consumed.
C8_FailsInParse ==
    (text = OneTwoThree /\ pc \in {"parse", "returned", "raised"}) =>
        /\ tokens = <<Text(<<"1", ".", "2">>), Text(<<".", "3">>)>>
        /\ pc # "returned"
        /\ pc = "raised" =>
              /\ err = ParseError("Unexpected token", Text(<<".", "3">>), <<>>, -1, "parse")
              /\ consumed = <<Text(<<"1", ".", "2">>)>>
              /\ ret = Double(FALSE, 12, 10)

\* evaluate("1.2.3") has failed
C8_Witness ==
    /\ text = OneTwoThree
    /\ pc = "raised"
    /\ idx = 1

----------------------------------------------------------------------------
(* C9: numeric literals *)

Dots(tok) == Cardinality({k \in 1..Len(tok) : tok[k] = Dot})

IsNumeric(tok) == tok # <<>> /\ \A k \in 1..Len(tok) : isdigit(tok[k]) \/ tok[k] = Dot

\* C9, one step: a step of the tokenizer that starts at a digit or a "."
\* appends the text from there to where it stops, digits with at most one
\* ".", and it stops at the end of the text, before a character that is
\* neither digit nor ".", or before a "." when the token has one.
C9_NumberStep ==
    (pc = "lex" /\ i < Len(text) /\ (isdigit(At(text, i)) \/ At(text, i) = Dot)) =>
        /\ i' > i
        /\ tokens' = Append(tokens, SubSeq(text, i + 1, i'))
        /\ IsNumeric(Last(tokens'))
        /\ Dots(Last(tokens')) <= 1
        /\ \/ i' = Len(text)
           \/ ~IsNumeric(<<At(text, i')>>)
           \/ (At(text, i') = Dot /\ Dots(Last(tokens')) = 1)

\* C9: every numeric token is a maximal run of digits with at most one ".",
\* kept as the text it was read from.
C9_GreedyNumbers ==
    /\ [][C9_NumberStep]_vars
    /\ [](\A k \in 1..Len(tokens) : tokens[k] \in Range([c \in OpChars |-> <<c>>])
                                       \/ (IsNumeric(tokens[k]) /\ Dots(tokens[k]) <= 1))

\* a literal with a "." has ended at a second "."
C9_Witness ==
    /\ pc = "lex"
    /\ tokens # <<>>
    /\ Dots(Last(tokens)) = 1
    /\ i < Len(text)
    /\ At(text, i) = Dot
    /\ Last(tokens) = SubSeq(text, i + 1 - Len(Last(tokens)), i)

----------------------------------------------------------------------------
(* C10: the cursor *)

\* the token at position k (from 1) as advance returns it
TokenOrNone(k) == IF k <= Len(tokens) THEN tokens[k] ELSE None

\* C10, the state: the tokens advance has returned are the first idx tokens
\* in order (None beyond the end), so each advance moved the cursor by one
\* and no token was read twice; on a return of parse the cursor is the
\* number of tokens.
C10_CursorState ==
    /\ Len(consumed) = idx
    /\ \A k \in 1..idx : consumed[k] = TokenOrNone(k)
    /\ pc = "returned" => idx = Len(tokens)

\* C10, one step of the parser: the cursor stays or goes up by one, also
\* when the step raises.
C10_CursorStep == pc = "parse" => (idx' = idx \/ idx' = idx + 1)

\* C10: during a parse the cursor never goes back.
C10_CursorMonotone == [](C10_CursorState) /\ [][C10_CursorStep]_vars

\* expect(")") has failed at the end of the tokens, the cursor past the end
C10_Witness ==
    /\ pc = "raised"
    /\ err.msg = "Expected"
    /\ err.tok = None
    /\ idx = Len(tokens) + 1

====
